---- MODULE Spec2Model ----
(***************************************************************************)
(* Morse Master (p1x_morse_master.c): the Morse table and its two lookups, *)
(* the Practice-mode decoder (input callback, draw callback,               *)
(* try_decode_morse), the sound queue and the sound worker.                *)
(*                                                                         *)
(* C strings are modelled as the byte arrays the code declares: a char[n]  *)
(* is a sequence of n characters, C index i is element i + 1, and NUL is   *)
(* the terminator.  Characters are one-character strings.                  *)
(***************************************************************************)
EXTENDS Integers, Sequences, FiniteSets, TLC

VARIABLES
    app,            \* the MorseApp structure
    sound_queue,    \* app->sound_queue: the SoundCommand values queued
    put_status,     \* status returned by the last furi_message_queue_put
    now,            \* wall clock, in milliseconds
    keyed,          \* number of dot/dash key events handled in Practice mode
    last_symbol_ms, \* clock at the last dot/dash key event (0: none yet)
    last_key_ms,    \* clock at the last OK/LEFT event in Practice (0: none)
    codec,          \* inputs and results of the table lookups (SpecCodec)
    worker,         \* the sound worker: its position and the command it took
    polled,         \* TRUE when the last step taken was a redraw
    ok_key,         \* the OK key as the input service sees it: up, down, short or long
    main,           \* position of the main thread: loop, join, free or done
    hal,            \* speaker and LED: owner of the speaker, tone, LED colour
    hist            \* what was queued and played, for the properties of the worker

vars == <<app, sound_queue, put_status, now, keyed, last_symbol_ms, last_key_ms, codec, worker, polled, ok_key, main, hal, hist>>

----------------------------------------------------------------------------
\* Configuration (p1x_morse_master.c:15-25)

DOT_DURATION_MS == 150
DASH_DURATION_MS == 300
ELEMENT_SPACE_MS == 100
DECODE_TIMEOUT_MS == 2000
MAX_MORSE_LENGTH == 6
TOP_WORDS_MAX_LENGTH == 16
INITIAL_VOLUME == 25
SOUND_QUEUE_CAPACITY == 8

\* Bounds of the exploration
MaxKeyed == 5
MaxSeconds == 4
MaxKeyedLong == 6
MaxSecondsLong == 9
MaxKeyedSound == 2
TickMs == 500
MaxTestLen == 6
MaxKeyedLive == 2
MaxSecondsLive == 5
MaxKeyedMarquee == 2
MaxSecondsMarquee == 5
MaxCommands == 2
MaxKeyedVolume == 3
MaxCharacterCommands == 2
MaxKeyedBounds == 6
MaxSecondsBounds == 5

----------------------------------------------------------------------------
\* Characters and C strings

NUL == "NUL"
NULL == <<"NULL">>

UpperCase == <<"A", "B", "C", "D", "E", "F", "G", "H", "I", "J", "K", "L", "M", "N", "O", "P", "Q", "R", "S", "T", "U", "V", "W", "X", "Y", "Z">>
LowerCase == <<"a", "b", "c", "d", "e", "f", "g", "h", "i", "j", "k", "l", "m", "n", "o", "p", "q", "r", "s", "t", "u", "v", "w", "x", "y", "z">>
Digits == <<"0", "1", "2", "3", "4", "5", "6", "7", "8", "9">>

SeqRange(s) == {s[i] : i \in 1..Len(s)}

toupper(c) ==
    IF \E i \in 1..Len(LowerCase) : LowerCase[i] = c
    THEN UpperCase[CHOOSE i \in 1..Len(LowerCase) : LowerCase[i] = c]
    ELSE c

Zeros(n) == [i \in 1..n |-> NUL]

strlen(a) ==
    IF \E i \in 1..Len(a) : a[i] = NUL
    THEN (CHOOSE i \in 1..Len(a) : a[i] = NUL /\ \A j \in 1..(i - 1) : a[j] # NUL) - 1
    ELSE Len(a)

cstr(a) == SubSeq(a, 1, strlen(a))

Store(a, i, c) == [a EXCEPT ![i + 1] = c]

----------------------------------------------------------------------------
\* The Morse table and its lookups

MORSE_TABLE ==
    << [character |-> "A", code |-> <<".", "-">>],
       [character |-> "B", code |-> <<"-", ".", ".", ".">>],
       [character |-> "C", code |-> <<"-", ".", "-", ".">>],
       [character |-> "D", code |-> <<"-", ".", ".">>],
       [character |-> "E", code |-> <<".">>],
       [character |-> "F", code |-> <<".", ".", "-", ".">>],
       [character |-> "G", code |-> <<"-", "-", ".">>],
       [character |-> "H", code |-> <<".", ".", ".", ".">>],
       [character |-> "I", code |-> <<".", ".">>],
       [character |-> "J", code |-> <<".", "-", "-", "-">>],
       [character |-> "K", code |-> <<"-", ".", "-">>],
       [character |-> "L", code |-> <<".", "-", ".", ".">>],
       [character |-> "M", code |-> <<"-", "-">>],
       [character |-> "N", code |-> <<"-", ".">>],
       [character |-> "O", code |-> <<"-", "-", "-">>],
       [character |-> "P", code |-> <<".", "-", "-", ".">>],
       [character |-> "Q", code |-> <<"-", "-", ".", "-">>],
       [character |-> "R", code |-> <<".", "-", ".">>],
       [character |-> "S", code |-> <<".", ".", ".">>],
       [character |-> "T", code |-> <<"-">>],
       [character |-> "U", code |-> <<".", ".", "-">>],
       [character |-> "V", code |-> <<".", ".", ".", "-">>],
       [character |-> "W", code |-> <<".", "-", "-">>],
       [character |-> "X", code |-> <<"-", ".", ".", "-">>],
       [character |-> "Y", code |-> <<"-", ".", "-", "-">>],
       [character |-> "Z", code |-> <<"-", "-", ".", ".">>],
       [character |-> "0", code |-> <<"-", "-", "-", "-", "-">>],
       [character |-> "1", code |-> <<".", "-", "-", "-", "-">>],
       [character |-> "2", code |-> <<".", ".", "-", "-", "-">>],
       [character |-> "3", code |-> <<".", ".", ".", "-", "-">>],
       [character |-> "4", code |-> <<".", ".", ".", ".", "-">>],
       [character |-> "5", code |-> <<".", ".", ".", ".", ".">>],
       [character |-> "6", code |-> <<"-", ".", ".", ".", ".">>],
       [character |-> "7", code |-> <<"-", "-", ".", ".", ".">>],
       [character |-> "8", code |-> <<"-", "-", "-", ".", ".">>],
       [character |-> "9", code |-> <<"-", "-", "-", "-", ".">>] >>

\* A lookup that does not fold the case
get_morse_for_char_NoFold(c) ==
    LET hits == {i \in 1..Len(MORSE_TABLE) : MORSE_TABLE[i].character = c}
    IN  IF hits = {} THEN NULL
        ELSE MORSE_TABLE[CHOOSE i \in hits : \A j \in hits : i <= j].code

get_morse_for_char(c) ==
    LET u == toupper(c)
        hits == {i \in 1..Len(MORSE_TABLE) : MORSE_TABLE[i].character = u}
    IN  IF hits = {} THEN NULL
        ELSE MORSE_TABLE[CHOOSE i \in hits : \A j \in hits : i <= j].code

\* A lookup that compares only the first Len(code) symbols, as strncmp would
get_char_for_morse_Prefix(morse) ==
    LET hits == {i \in 1..Len(MORSE_TABLE) :
                    /\ Len(MORSE_TABLE[i].code) <= Len(morse)
                    /\ SubSeq(morse, 1, Len(MORSE_TABLE[i].code)) = MORSE_TABLE[i].code}
    IN  IF hits = {} THEN "?"
        ELSE MORSE_TABLE[CHOOSE i \in hits : \A j \in hits : i <= j].character

get_char_for_morse(morse) ==
    LET hits == {i \in 1..Len(MORSE_TABLE) : MORSE_TABLE[i].code = morse}
    IN  IF hits = {} THEN "?"
        ELSE MORSE_TABLE[CHOOSE i \in hits : \A j \in hits : i <= j].character

----------------------------------------------------------------------------
\* Enumerations (p1x_morse_master.c:28-43, input/input.h)

MorseStateTitleScreen == "MorseStateTitleScreen"
MorseStateMenu == "MorseStateMenu"
MorseStateLearn == "MorseStateLearn"
MorseStatePractice == "MorseStatePractice"
MorseStateHelp == "MorseStateHelp"

SoundCommandDot == "SoundCommandDot"
SoundCommandDash == "SoundCommandDash"
SoundCommandCharacter == "SoundCommandCharacter"

InputKeyUp == "InputKeyUp"
InputKeyDown == "InputKeyDown"
InputKeyRight == "InputKeyRight"
InputKeyLeft == "InputKeyLeft"
InputKeyOk == "InputKeyOk"
InputKeyBack == "InputKeyBack"

InputTypePress == "InputTypePress"
InputTypeRelease == "InputTypeRelease"
InputTypeShort == "InputTypeShort"
InputTypeLong == "InputTypeLong"
InputTypeRepeat == "InputTypeRepeat"

InputKeys == {InputKeyUp, InputKeyDown, InputKeyRight, InputKeyLeft, InputKeyOk, InputKeyBack}
InputTypes == {InputTypePress, InputTypeRelease, InputTypeShort, InputTypeLong, InputTypeRepeat}

FuriStatusOk == "FuriStatusOk"
FuriStatusErrorResource == "FuriStatusErrorResource"

----------------------------------------------------------------------------
\* The clock.  furi_hal_rtc_get_timestamp() is the RTC time in whole
\* seconds, as a uint32_t; the clock of the model stays far below 2^32.

furi_hal_rtc_get_timestamp(ms) == ms \div 1000

\* a - b in uint32_t arithmetic.  When a < b the C difference wraps to
\* 2^32 - (b - a), which is larger than any value it is compared with here:
\* the model gives the largest integer.
Sub32(a, b) == IF a >= b THEN a - b ELSE 2147483647

----------------------------------------------------------------------------
\* The sound queue (FuriMessageQueue of capacity 8, put with timeout 0)

\* A queue that makes room by dropping its oldest command
furi_message_queue_put_DropOldest(q, cmd) ==
    IF Len(q) < SOUND_QUEUE_CAPACITY THEN Append(q, cmd) ELSE Append(Tail(q), cmd)

furi_message_queue_put(q, cmd) ==
    IF Len(q) < SOUND_QUEUE_CAPACITY THEN Append(q, cmd) ELSE q

furi_message_queue_put_status(q) ==
    IF Len(q) < SOUND_QUEUE_CAPACITY THEN FuriStatusOk ELSE FuriStatusErrorResource

\* The handlers below return [app |-> the structure after the call,
\* snd |-> the commands passed to furi_message_queue_put, in order].

play_dot(a) == [app |-> a, snd |-> <<SoundCommandDot>>]

play_dash(a) == [app |-> a, snd |-> <<SoundCommandDash>>]

play_character(a, ch) ==
    [app |-> [a EXCEPT !.sound_character = ch], snd |-> <<SoundCommandCharacter>>]

----------------------------------------------------------------------------
\* The decoder

\* A marquee that, once full, overwrites its newest character
update_top_words_marquee_Overwrite(a, new_char) ==
    LET len == strlen(a.top_words)
    IN  IF len < TOP_WORDS_MAX_LENGTH
        THEN [a EXCEPT !.top_words = Store(Store(a.top_words, len, new_char), len + 1, NUL)]
        ELSE [a EXCEPT !.top_words = Store(a.top_words, TOP_WORDS_MAX_LENGTH - 1, new_char)]

update_top_words_marquee(a, new_char) ==
    LET len == strlen(a.top_words)
    IN  IF len < TOP_WORDS_MAX_LENGTH
        THEN [a EXCEPT !.top_words = Store(Store(a.top_words, len, new_char), len + 1, NUL)]
        ELSE [a EXCEPT !.top_words =
                 [i \in 1..(TOP_WORDS_MAX_LENGTH + 1) |->
                     IF i < TOP_WORDS_MAX_LENGTH THEN a.top_words[i + 1]
                     ELSE IF i = TOP_WORDS_MAX_LENGTH THEN new_char
                     ELSE NUL]]

\* A pause test that needs more than the timeout
PauseDetected_Strict(a, current_time) ==
    /\ a.last_input_time > 0
    /\ Sub32(current_time, a.last_input_time) > DECODE_TIMEOUT_MS \div 1000
    /\ a.current_morse_position > 0

\* The pause test of try_decode_morse (lines 332-334)
PauseDetected(a, current_time) ==
    /\ a.last_input_time > 0
    /\ Sub32(current_time, a.last_input_time) >= DECODE_TIMEOUT_MS \div 1000
    /\ a.current_morse_position > 0

\* Lines 345-365: a valid character goes to decoded_text, top_words and user_input
RecordDecoded(a, ch) ==
    LET len == strlen(a.decoded_text)
        a1 == IF len < MAX_MORSE_LENGTH - 1
              THEN [a EXCEPT !.decoded_text = Store(Store(a.decoded_text, len, ch), len + 1, NUL),
                             !.auto_add_space = TRUE]
              ELSE a
        a2 == update_top_words_marquee(a1, ch)
    IN  IF a2.input_position < MAX_MORSE_LENGTH - 1
        THEN [a2 EXCEPT !.user_input =
                            Store(Store(a2.user_input, a2.input_position, ch),
                                  a2.input_position + 1, NUL),
                        !.input_position = a2.input_position + 1]
        ELSE a2

\* A reset that is made only after a character was decoded
ResetCurrentMorse_IfDecoded(a) ==
    IF a.last_decoded_char = "?" THEN a
    ELSE [a EXCEPT !.current_morse_position = 0,
                   !.current_morse = Store(a.current_morse, 0, NUL)]

\* Lines 367-369: reset the current morse code for the next letter
ResetCurrentMorse(a) ==
    [a EXCEPT !.current_morse_position = 0,
              !.current_morse = Store(a.current_morse, 0, NUL)]

try_decode_morse(a, current_time) ==
    IF PauseDetected(a, current_time)
    THEN LET a1 == [a EXCEPT !.current_morse =
                                 Store(a.current_morse, a.current_morse_position, NUL)]
             ch == get_char_for_morse(cstr(a1.current_morse))
             a2 == [a1 EXCEPT !.last_decoded_char = ch]
             a3 == IF ch # "?" THEN RecordDecoded(a2, ch) ELSE a2
         IN  ResetCurrentMorse(a3)
    ELSE a

----------------------------------------------------------------------------
\* morse_app_input_callback (lines 517-737)

NoSound(a) == [app |-> a, snd |-> <<>>]

\* Lines 521-540: the time stamp and the animation flag, before the switch
InputPrologue(a, key, type, timestamp) ==
    IF a.app_state = MorseStatePractice /\ key \in {InputKeyOk, InputKeyLeft}
    THEN [a EXCEPT !.last_input_time = timestamp,
                   !.input_active = IF type = InputTypePress THEN TRUE
                                    ELSE IF type = InputTypeRelease THEN FALSE
                                    ELSE @]
    ELSE a

\* An automatic space that leaves the flag set
ConsumeAutoSpace_KeepFlag(a) ==
    IF a.auto_add_space
    THEN LET len == strlen(a.decoded_text)
         IN  [a EXCEPT !.decoded_text =
                           IF len < MAX_MORSE_LENGTH - 1
                           THEN Store(Store(@, len, " "), len + 1, NUL)
                           ELSE @]
    ELSE a

\* Lines 639-646: the automatic space after the previous decode
ConsumeAutoSpace(a) ==
    IF a.auto_add_space
    THEN LET len == strlen(a.decoded_text)
         IN  [a EXCEPT !.decoded_text =
                           IF len < MAX_MORSE_LENGTH - 1
                           THEN Store(Store(@, len, " "), len + 1, NUL)
                           ELSE @,
                       !.auto_add_space = FALSE]
    ELSE a

\* A handler that never clears user_input
ClearFullInput_Never(a) == a

\* Lines 651-661: user_input is cleared when it is full
ClearFullInput(a) ==
    IF a.input_position >= MAX_MORSE_LENGTH - 1
    THEN [a EXCEPT !.user_input = Zeros(MAX_MORSE_LENGTH), !.input_position = 0]
    ELSE a

\* Lines 670-673 and 685-688: the symbol goes to current_morse if there is room
AppendCurrentMorse(a, symbol) ==
    IF a.current_morse_position < MAX_MORSE_LENGTH - 1
    THEN [a EXCEPT !.current_morse =
                       Store(Store(@, a.current_morse_position, symbol),
                             a.current_morse_position + 1, NUL),
                   !.current_morse_position = @ + 1]
    ELSE a

\* Lines 663-692: a short press is a dot, a long press a dash
AddSymbol(a, symbol) ==
    IF strlen(a.user_input) < MAX_MORSE_LENGTH - 1
    THEN LET a1 == [a EXCEPT !.user_input =
                                 Store(Store(@, a.input_position, symbol),
                                       a.input_position + 1, NUL),
                             !.input_position = @ + 1]
             a2 == AppendCurrentMorse(a1, symbol)
         IN  IF symbol = "." THEN play_dot(a2) ELSE play_dash(a2)
    ELSE NoSound(a)

\* Lines 637-693: OK or LEFT in Practice mode
PracticeKey(a, type, timestamp) ==
    LET a1 == ConsumeAutoSpace(a)
        a2 == [a1 EXCEPT !.last_input_time = timestamp]
        a3 == ClearFullInput(a2)
    IN  IF type = InputTypeShort THEN AddSymbol(a3, ".")
        ELSE IF type = InputTypeLong THEN AddSymbol(a3, "-")
        ELSE NoSound(a3)

\* Lines 694-704: RIGHT in Practice mode clears the input
ClearInput(a) ==
    [a EXCEPT !.user_input = Zeros(MAX_MORSE_LENGTH),
              !.input_position = 0,
              !.decoded_text = Zeros(MAX_MORSE_LENGTH),
              !.current_morse = Zeros(MAX_MORSE_LENGTH),
              !.current_morse_position = 0,
              !.auto_add_space = FALSE,
              !.last_input_time = 0]

\* Lines 705-720: UP and DOWN in Practice mode change the volume by 0.25
\* A volume that is raised without an upper limit
VolumeUp_NoClamp(a) == [a EXCEPT !.volume = a.volume + 25]

VolumeUp(a) ==
    LET v == IF a.volume < 100 THEN a.volume + 25 ELSE 100
    IN  [a EXCEPT !.volume = IF v > 100 THEN 100 ELSE v]

VolumeDown(a) ==
    LET v == IF a.volume > 0 THEN a.volume - 25 ELSE 0
    IN  [a EXCEPT !.volume = IF v < 0 THEN 0 ELSE v]

\* Lines 636-724
PracticeInput(a, key, type, timestamp) ==
    IF key \in {InputKeyOk, InputKeyLeft} THEN PracticeKey(a, type, timestamp)
    ELSE IF key = InputKeyRight /\ type = InputTypeShort THEN NoSound(ClearInput(a))
    ELSE IF key = InputKeyUp /\ type = InputTypeShort THEN NoSound(VolumeUp(a))
    ELSE IF key = InputKeyDown /\ type = InputTypeShort THEN NoSound(VolumeDown(a))
    ELSE IF key = InputKeyBack /\ type = InputTypeShort
         THEN NoSound([a EXCEPT !.app_state = MorseStateMenu])
    ELSE NoSound(a)

\* Lines 550-582
MenuInput(a, key, type) ==
    IF type # InputTypeShort THEN a
    ELSE IF key = InputKeyLeft
         THEN [a EXCEPT !.menu_selection = IF @ > 0 THEN @ - 1 ELSE 2]
    ELSE IF key = InputKeyRight
         THEN [a EXCEPT !.menu_selection = IF @ < 2 THEN @ + 1 ELSE 0]
    ELSE IF key = InputKeyOk
         THEN IF a.menu_selection = 0 THEN [a EXCEPT !.app_state = MorseStateLearn]
              ELSE IF a.menu_selection = 1
                   THEN [a EXCEPT !.app_state = MorseStatePractice,
                                  !.user_input = Zeros(MAX_MORSE_LENGTH),
                                  !.input_active = FALSE]
              ELSE IF a.menu_selection = 2 THEN [a EXCEPT !.app_state = MorseStateHelp]
              ELSE a
    ELSE IF key = InputKeyBack THEN [a EXCEPT !.is_running = FALSE]
    ELSE a

\* current_char++ and current_char-- on the characters the model names
NextChar(c) ==
    LET all == UpperCase \o Digits
        i == CHOOSE k \in 1..Len(all) : all[k] = c
    IN  IF c = "Z" THEN "[" ELSE IF c = "9" THEN ":" ELSE all[i + 1]

PrevChar(c) ==
    LET all == UpperCase \o Digits
        i == CHOOSE k \in 1..Len(all) : all[k] = c
    IN  IF c = "A" THEN "@" ELSE IF c = "0" THEN "/" ELSE all[i - 1]

\* A Learn mode whose RIGHT key goes past the last character
LearnInput_NoWrap(a, key, type) ==
    IF type # InputTypeShort THEN NoSound(a)
    ELSE IF key = InputKeyOk THEN play_character(a, a.current_char)
    ELSE IF key = InputKeyUp
         THEN NoSound([a EXCEPT !.learning_letters_mode = TRUE, !.current_char = "A"])
    ELSE IF key = InputKeyDown
         THEN NoSound([a EXCEPT !.learning_letters_mode = FALSE, !.current_char = "0"])
    ELSE IF key = InputKeyRight
         THEN NoSound([a EXCEPT !.current_char = IF @ \in {"[", ":"} THEN @ ELSE NextChar(@)])
    ELSE IF key = InputKeyLeft
         THEN NoSound([a EXCEPT !.current_char =
                          IF a.learning_letters_mode
                          THEN (IF @ = "A" THEN "Z" ELSE IF @ = "[" THEN "Z" ELSE PrevChar(@))
                          ELSE (IF @ = "0" THEN "9" ELSE IF @ = ":" THEN "9" ELSE PrevChar(@))])
    ELSE IF key = InputKeyBack THEN NoSound([a EXCEPT !.app_state = MorseStateMenu])
    ELSE NoSound(a)

\* Lines 584-634
LearnInput(a, key, type) ==
    IF type # InputTypeShort THEN NoSound(a)
    ELSE IF key = InputKeyOk THEN play_character(a, a.current_char)
    ELSE IF key = InputKeyUp
         THEN NoSound([a EXCEPT !.learning_letters_mode = TRUE, !.current_char = "A"])
    ELSE IF key = InputKeyDown
         THEN NoSound([a EXCEPT !.learning_letters_mode = FALSE, !.current_char = "0"])
    ELSE IF key = InputKeyRight
         THEN NoSound([a EXCEPT !.current_char =
                          IF a.learning_letters_mode
                          THEN (IF @ = "Z" THEN "A" ELSE NextChar(@))
                          ELSE (IF @ = "9" THEN "0" ELSE NextChar(@))])
    ELSE IF key = InputKeyLeft
         THEN NoSound([a EXCEPT !.current_char =
                          IF a.learning_letters_mode
                          THEN (IF @ = "A" THEN "Z" ELSE PrevChar(@))
                          ELSE (IF @ = "0" THEN "9" ELSE PrevChar(@))])
    ELSE IF key = InputKeyBack THEN NoSound([a EXCEPT !.app_state = MorseStateMenu])
    ELSE NoSound(a)

morse_app_input_callback(a, key, type, timestamp) ==
    LET a1 == InputPrologue(a, key, type, timestamp)
    IN  IF a1.app_state = MorseStateTitleScreen
        THEN NoSound(IF type \in {InputTypeShort, InputTypeLong}
                     THEN [a1 EXCEPT !.app_state = MorseStateMenu] ELSE a1)
        ELSE IF a1.app_state = MorseStateMenu THEN NoSound(MenuInput(a1, key, type))
        ELSE IF a1.app_state = MorseStateLearn THEN LearnInput(a1, key, type)
        ELSE IF a1.app_state = MorseStatePractice
             THEN PracticeInput(a1, key, type, timestamp)
        ELSE IF a1.app_state = MorseStateHelp
             THEN NoSound(IF key = InputKeyBack /\ type = InputTypeShort
                          THEN [a1 EXCEPT !.app_state = MorseStateMenu] ELSE a1)
        ELSE NoSound(a1)

\* A redraw that leaves the decoder alone
morse_app_draw_callback_NoDecode(a, timestamp) == a

\* morse_app_draw_callback (lines 374-514): only the Practice screen changes state
morse_app_draw_callback(a, timestamp) ==
    IF a.app_state = MorseStatePractice THEN try_decode_morse(a, timestamp) ELSE a

----------------------------------------------------------------------------
\* The state after p1x_morse_master_app has set the structure up
\* (lines 751 and 772-788)

InitApp ==
    [app_state |-> MorseStateTitleScreen,
     menu_selection |-> 1,
     is_running |-> TRUE,
     sound_running |-> TRUE,
     sound_character |-> NUL,
     volume |-> INITIAL_VOLUME,
     input_active |-> FALSE,
     current_char |-> "A",
     learning_letters_mode |-> TRUE,
     user_input |-> Zeros(MAX_MORSE_LENGTH),
     input_position |-> 0,
     last_input_time |-> 0,
     decoded_text |-> Zeros(MAX_MORSE_LENGTH),
     top_words |-> Zeros(TOP_WORDS_MAX_LENGTH + 1),
     current_morse |-> Zeros(MAX_MORSE_LENGTH),
     current_morse_position |-> 0,
     auto_add_space |-> FALSE,
     last_decoded_char |-> NUL]

\* The RTC reads a date after 1970: the first time stamp is positive
StartMs == 1000

StartTimes == {StartMs}

\* The speaker is free, no tone, the LED is off (nothing was played yet)
InitHal == [owner |-> "none", tone |-> FALSE, led |-> "off"]

\* Nothing was queued or played yet
NoHist == [accepted |-> <<>>, taken |-> <<>>, qvol |-> <<>>, cmdvol |-> INITIAL_VOLUME,
           after_stop |-> 0, pulses |-> <<>>, skipped |-> 0, clamped |-> FALSE,
           qchar |-> <<>>, cmdchar |-> NUL, wrapped |-> FALSE]

\* The view port, and with it both callbacks, stays registered until the
\* main thread has removed it (lines 791-792, 823-825)
CallbacksRegistered == main # "done"

\* The sound worker has not taken a command yet
InitWorker == [pc |-> "wait", command |-> "SoundCommandNone"]

\* No lookup has been made
NONE == <<"none">>

NoCodec == [char |-> NUL, morse |-> <<>>, encoded |-> NONE, decoded |-> "none", round_trip |-> "none"]

Init ==
    /\ app = InitApp
    /\ sound_queue = <<>>
    /\ put_status = FuriStatusOk
    /\ now \in StartTimes
    /\ keyed = 0
    /\ last_symbol_ms = 0
    /\ last_key_ms = 0
    /\ codec = NoCodec
    /\ worker = InitWorker
    /\ polled = FALSE
    /\ ok_key = "up"
    /\ main = "loop"
    /\ hal = InitHal
    /\ hist = NoHist

----------------------------------------------------------------------------
\* Actions

IsPracticeKey(key) ==
    app.app_state = MorseStatePractice /\ key \in {InputKeyOk, InputKeyLeft}

IsSymbolEvent(key, type) ==
    IsPracticeKey(key) /\ type \in {InputTypeShort, InputTypeLong}

\* One input event, handled by morse_app_input_callback
Input(key, type) ==
    /\ CallbacksRegistered
    /\ LET r == morse_app_input_callback(app, key, type, furi_hal_rtc_get_timestamp(now))
       IN  /\ app' = r.app
           /\ sound_queue' = IF r.snd = <<>> THEN sound_queue
                             ELSE furi_message_queue_put(sound_queue, r.snd[1])
           /\ put_status' = IF r.snd = <<>> THEN put_status
                            ELSE furi_message_queue_put_status(sound_queue)
    /\ keyed' = IF IsSymbolEvent(key, type) THEN keyed + 1 ELSE keyed
    /\ last_symbol_ms' = IF IsSymbolEvent(key, type) THEN now ELSE last_symbol_ms
    /\ last_key_ms' = IF IsPracticeKey(key) THEN now ELSE last_key_ms
    /\ polled' = FALSE
    /\ UNCHANGED <<now, codec, worker, main, hal>>

\* One redraw, handled by morse_app_draw_callback
Draw ==
    /\ CallbacksRegistered
    /\ app' = morse_app_draw_callback(app, furi_hal_rtc_get_timestamp(now))
    /\ polled' = TRUE
    /\ UNCHANGED <<sound_queue, put_status, now, keyed, last_symbol_ms, last_key_ms, codec, worker, ok_key, main, hal, hist>>

\* Time passes
Tick(d) ==
    /\ now' = now + d
    /\ polled' = FALSE
    /\ UNCHANGED <<app, sound_queue, put_status, keyed, last_symbol_ms, last_key_ms, codec, worker, ok_key, main, hal, hist>>

\* The order in which the input service sends the events of one press of a
\* key: Press, then Short and Release for a short press, or Long, any
\* number of Repeat and Release for a long one.
KeyAllows(type) ==
    \/ type = InputTypePress /\ ok_key = "up"
    \/ type \in {InputTypeShort, InputTypeLong} /\ ok_key = "down"
    \/ type = InputTypeRepeat /\ ok_key = "long"
    \/ type = InputTypeRelease /\ ok_key \in {"short", "long"}

KeyAfter(type) ==
    IF type = InputTypePress THEN "down"
    ELSE IF type = InputTypeShort THEN "short"
    ELSE IF type = InputTypeRelease THEN "up"
    ELSE "long"

\* One event of the OK key, on any screen
OkEvent(types, maxKeyed) ==
    \E type \in types :
        /\ KeyAllows(type)
        /\ IsSymbolEvent(InputKeyOk, type) => keyed < maxKeyed
        /\ Input(InputKeyOk, type)
        /\ ok_key' = KeyAfter(type)
        /\ UNCHANGED hist

\* RIGHT, short, in Practice mode: clear
ClearEvent ==
    /\ app.app_state = MorseStatePractice
    /\ Input(InputKeyRight, InputTypeShort)
    /\ UNCHANGED <<ok_key, hist>>

\* Time passes while the key is up or held down; a press becomes Short or
\* Long, and a short press is released, within one step of the clock
ClockStep(d, maxSeconds) ==
    /\ ok_key \in {"up", "long"}
    /\ now + d <= 1000 * (maxSeconds + 1)
    /\ Tick(d)

\* The decoder under a fine clock: half-second steps, a few symbols
KeyEvent == OkEvent(InputTypes, MaxKeyed) \/ ClearEvent

Clock == \E d \in {TickMs, 4 * TickMs} : ClockStep(d, MaxSeconds)

Next == KeyEvent \/ Draw \/ Clock

Spec == Init /\ [][Next]_vars

\* The decoder over a long session: whole timeouts pass, more symbols, all
\* of them short presses
KeyEventLong == OkEvent({InputTypePress, InputTypeShort, InputTypeRelease}, MaxKeyedLong)

ClockLong == ClockStep(DECODE_TIMEOUT_MS, MaxSecondsLong)

NextLong == KeyEventLong \/ Draw \/ ClockLong

SpecLong == Init /\ [][NextLong]_vars

----------------------------------------------------------------------------
\* The sound queue between the input callback and the worker

\* sound_worker_thread, lines 170-172: the worker takes the oldest command
WorkerGet ==
    /\ app.sound_running
    /\ worker.pc = "wait"
    /\ sound_queue # <<>>
    /\ worker' = [pc |-> "play", command |-> Head(sound_queue)]
    /\ sound_queue' = Tail(sound_queue)
    /\ polled' = FALSE
    /\ UNCHANGED <<app, put_status, now, keyed, last_symbol_ms, last_key_ms, codec, ok_key, main, hal, hist>>

\* sound_worker_thread, lines 174-300: the command has been played
WorkerDone ==
    /\ worker.pc = "play"
    /\ worker' = [worker EXCEPT !.pc = "wait"]
    /\ polled' = FALSE
    /\ UNCHANGED <<app, sound_queue, put_status, now, keyed, last_symbol_ms, last_key_ms, codec, ok_key, main, hal, hist>>

\* The events explored: into Learn mode (LEFT then OK in the menu) or
\* Practice mode, the keys that play a sound, and back to the menu
SoundEvents ==
    IF app.app_state = MorseStatePractice
    THEN {<<InputKeyOk, InputTypeShort>>, <<InputKeyOk, InputTypeLong>>,
          <<InputKeyBack, InputTypeShort>>}
    ELSE IF app.app_state = MorseStateLearn
    THEN {<<InputKeyOk, InputTypeShort>>, <<InputKeyBack, InputTypeShort>>}
    ELSE IF app.app_state = MorseStateMenu
    THEN {<<InputKeyOk, InputTypeShort>>, <<InputKeyLeft, InputTypeShort>>}
    ELSE {<<InputKeyOk, InputTypeShort>>}

KeyEventSound ==
    \E e \in SoundEvents :
        /\ IsSymbolEvent(e[1], e[2]) => keyed < MaxKeyedSound
        /\ Input(e[1], e[2])
        /\ UNCHANGED <<ok_key, hist>>

NextSound == KeyEventSound \/ WorkerGet \/ WorkerDone

SpecSound == Init /\ [][NextSound]_vars

----------------------------------------------------------------------------
\* The table lookups on their own: every character and every dot/dash
\* string up to MaxTestLen symbols

SupportedChars == SeqRange(UpperCase) \cup SeqRange(LowerCase) \cup SeqRange(Digits)

TestChars == SupportedChars \cup {"?", " ", "@", "[", NUL}

MorseStrings(n) == UNION {[1..k -> {".", "-"}] : k \in 0..n}

InitCodec ==
    /\ app = InitApp
    /\ sound_queue = <<>>
    /\ put_status = FuriStatusOk
    /\ now \in StartTimes
    /\ keyed = 0
    /\ last_symbol_ms = 0
    /\ last_key_ms = 0
    /\ worker = InitWorker
    /\ polled = FALSE
    /\ ok_key = "up"
    /\ main = "loop"
    /\ hal = InitHal
    /\ hist = NoHist
    /\ \E c \in TestChars, m \in MorseStrings(MaxTestLen) :
           codec = [NoCodec EXCEPT !.char = c, !.morse = m]

Encode ==
    /\ codec.encoded = NONE
    /\ codec' = [codec EXCEPT !.encoded = get_morse_for_char(codec.char)]
    /\ UNCHANGED <<app, sound_queue, put_status, now, keyed, last_symbol_ms, last_key_ms, worker, polled, ok_key, main, hal, hist>>

Decode ==
    /\ codec.decoded = "none"
    /\ codec' = [codec EXCEPT !.decoded = get_char_for_morse(codec.morse)]
    /\ UNCHANGED <<app, sound_queue, put_status, now, keyed, last_symbol_ms, last_key_ms, worker, polled, ok_key, main, hal, hist>>

\* decode(encode(c)) for a character that has a code
RoundTrip ==
    /\ codec.encoded \notin {NONE, NULL}
    /\ codec.round_trip = "none"
    /\ codec' = [codec EXCEPT !.round_trip = get_char_for_morse(codec.encoded)]
    /\ UNCHANGED <<app, sound_queue, put_status, now, keyed, last_symbol_ms, last_key_ms, worker, polled, ok_key, main, hal, hist>>

NextCodec == Encode \/ Decode \/ RoundTrip

SpecCodec == InitCodec /\ [][NextCodec]_vars

----------------------------------------------------------------------------
\* Vocabulary of the properties

SymbolTypes == {InputTypeShort, InputTypeLong}

SymbolOf(type) == IF type = InputTypeShort THEN "." ELSE "-"

TableCodes == {MORSE_TABLE[i].code : i \in 1..Len(MORSE_TABLE)}

\* The symbol buffer, the decoded text and the rolling display text, as strings
Buffer(a) == cstr(a.current_morse)

DecodedText(a) == cstr(a.decoded_text)

TopWords(a) == cstr(a.top_words)

\* A dot or dash is keyed in Practice mode
SymbolStep(type) == app.app_state = MorseStatePractice /\ Input(InputKeyOk, type)

\* A redraw of the Practice screen: the poll of the decoder
PollStep == app.app_state = MorseStatePractice /\ Draw

\* Buffer, decoded history and last-decoded slot are left as they were
DecoderUnchanged ==
    /\ Buffer(app') = Buffer(app)
    /\ app'.current_morse_position = app.current_morse_position
    /\ DecodedText(app') = DecodedText(app)
    /\ TopWords(app') = TopWords(app)
    /\ app'.last_decoded_char = app.last_decoded_char

\* The buffer of the state was resolved by the step: decoded into the
\* last-decoded slot and emptied
ResolvedByStep ==
    /\ app'.last_decoded_char = get_char_for_morse(Buffer(app))
    /\ app'.current_morse_position = 0
    /\ Buffer(app') = <<>>

----------------------------------------------------------------------------
\* C1: a dot or dash keyed while the symbol buffer holds its maximum of
\* MAX_MORSE_LENGTH - 1 symbols first forces one resolution of the buffered
\* symbols and then starts the next buffer with the new symbol; below the
\* maximum the symbol is appended, so no keyed symbol is lost.
C1_NoSymbolLost ==
    [][\A type \in SymbolTypes :
          SymbolStep(type) =>
              IF app.current_morse_position < MAX_MORSE_LENGTH - 1
              THEN Buffer(app') = Append(Buffer(app), SymbolOf(type))
              ELSE /\ app'.last_decoded_char = get_char_for_morse(Buffer(app))
                   /\ Buffer(app') = <<SymbolOf(type)>>]_vars

\* C2: a poll made while less than DECODE_TIMEOUT_MS has passed since the
\* last symbol resolves nothing: buffer, decoded history and last-decoded
\* slot are unchanged.
C2_NoResolutionBeforeTimeout ==
    [][(PollStep /\ app.current_morse_position > 0
          /\ now - last_symbol_ms < DECODE_TIMEOUT_MS) => DecoderUnchanged]_vars

C4_GapSeparatesCharacters ==
    [][\A type \in SymbolTypes :
          (SymbolStep(type) /\ app.current_morse_position > 0
             /\ now - last_symbol_ms > DECODE_TIMEOUT_MS)
          => /\ app'.last_decoded_char = get_char_for_morse(Buffer(app))
             /\ Buffer(app') = <<SymbolOf(type)>>]_vars

\* C5: clear (RIGHT, short, in Practice mode) puts every decoder field back
\* to its initial value.
C5_ClearResetsEverything ==
    [][(app.app_state = MorseStatePractice /\ Input(InputKeyRight, InputTypeShort))
          => /\ Buffer(app') = <<>>
             /\ app'.current_morse_position = InitApp.current_morse_position
             /\ app'.last_input_time = InitApp.last_input_time
             /\ DecodedText(app') = <<>>
             /\ TopWords(app') = <<>>
             /\ app'.last_decoded_char = InitApp.last_decoded_char
             /\ app'.auto_add_space = InitApp.auto_add_space]_vars

\* C6: every supported character, in either case, has a code, and decoding
\* that code gives the upper-case character; the table pairs 36 distinct
\* characters with 36 distinct codes.
C6_RoundTrip ==
    /\ (codec.encoded # NONE /\ codec.char \in SupportedChars) => codec.encoded # NULL
    /\ codec.round_trip # "none" => codec.round_trip = toupper(codec.char)
    /\ Len(MORSE_TABLE) = 36
    /\ \A i, j \in 1..Len(MORSE_TABLE) :
           (MORSE_TABLE[i].code = MORSE_TABLE[j].code
              \/ MORSE_TABLE[i].character = MORSE_TABLE[j].character) => i = j
    /\ {MORSE_TABLE[i].character : i \in 1..Len(MORSE_TABLE)}
           = SeqRange(UpperCase) \cup SeqRange(Digits)

\* A lower-case letter went through encode and decode
C6_Witness == codec.char = "s" /\ codec.round_trip = "S"

\* C7: a dot/dash string that is no code of the table decodes to "?".
C7_UnknownMarker ==
    (codec.decoded # "none" /\ codec.morse \notin TableCodes) => codec.decoded = "?"

\* A string longer than every code was decoded
C7_Witness == Len(codec.morse) = MAX_MORSE_LENGTH /\ codec.decoded = "?"

\* C8: a play_dot, play_dash or play_character call made while the sound
\* queue holds SOUND_QUEUE_CAPACITY commands returns with the queue as it
\* was, the new command dropped; below the capacity the command is appended.
C8_DropNewest ==
    [][\A e \in InputKeys \X InputTypes :
          LET r == morse_app_input_callback(app, e[1], e[2], furi_hal_rtc_get_timestamp(now))
          IN  (Input(e[1], e[2]) /\ r.snd # <<>>)
              => IF Len(sound_queue) = SOUND_QUEUE_CAPACITY
                 THEN /\ sound_queue' = sound_queue
                      /\ put_status' = FuriStatusErrorResource
                      /\ app' = r.app
                 ELSE /\ sound_queue' = Append(sound_queue, r.snd[1])
                      /\ put_status' = FuriStatusOk]_vars

\* A command was dropped at a full queue that holds all three commands
C8_Witness ==
    /\ Len(sound_queue) = SOUND_QUEUE_CAPACITY
    /\ put_status = FuriStatusErrorResource
    /\ SeqRange(sound_queue) = {SoundCommandDot, SoundCommandDash, SoundCommandCharacter}

\* C9: a poll that resolves a buffer matching no table entry puts "?" in the
\* last-decoded slot, leaves the decoded history and the pending-separator
\* flag as they were and empties the buffer; the next symbol then starts a
\* fresh character.
C9_UnknownResolution ==
    [][/\ (PollStep /\ app.current_morse_position > 0 /\ Buffer(app) \notin TableCodes
             /\ (app' # app \/ now - last_key_ms >= DECODE_TIMEOUT_MS))
          => /\ app'.last_decoded_char = "?"
             /\ DecodedText(app') = DecodedText(app)
             /\ TopWords(app') = TopWords(app)
             /\ app'.auto_add_space = app.auto_add_space
             /\ app'.current_morse_position = 0
             /\ Buffer(app') = <<>>
       /\ \A type \in SymbolTypes :
             (SymbolStep(type) /\ app.current_morse_position = 0)
             => Buffer(app') = <<SymbolOf(type)>>]_vars

\* An unknown sequence was resolved and the next symbol started a new buffer
C9_Witness ==
    /\ app.last_decoded_char = "?"
    /\ app.current_morse_position = 1
    /\ TopWords(app) = <<>>

\* C10: every poll that resolves a buffer matching a table entry appends the
\* character to the decoded history (decoded_text and top_words) and sets
\* the pending-separator flag.
C10_RecognizedIsRecorded ==
    [][(PollStep /\ app.current_morse_position > 0 /\ Buffer(app) \in TableCodes
          /\ (app' # app \/ now - last_key_ms >= DECODE_TIMEOUT_MS))
          => LET ch == get_char_for_morse(Buffer(app))
             IN  /\ DecodedText(app') = Append(DecodedText(app), ch)
                 /\ TopWords(app') # <<>>
                 /\ TopWords(app')[Len(TopWords(app'))] = ch
                 /\ app'.auto_add_space]_vars

----------------------------------------------------------------------------
\* The decoder under the main loop's cadence (lines 803-815): in Practice
\* mode the loop asks for a redraw every 105 ms, so redraws keep coming, and
\* the clock keeps running whatever the keys do.

HorizonLive == 1000 * (MaxSecondsLive + 1)

\* The last value the clock takes in the session
LastTickLive == StartMs + TickMs * ((HorizonLive - StartMs) \div TickMs)

\* The events of the OK key in a session that ends at HorizonLive: a press
\* starts early enough for its timeout to fall inside the session, and a
\* key that is held down sends Repeat events for as long as it is held
KeyEventLive ==
    \E type \in InputTypes :
        /\ type # InputTypeRepeat => now + DECODE_TIMEOUT_MS <= LastTickLive
        /\ OkEvent({type}, MaxKeyedLive)

\* The main loop sleeps between two redraws (lines 803-815): time passes
ClockLive ==
    /\ now + TickMs <= HorizonLive
    /\ Tick(TickMs)

NextLive == KeyEventLive \/ Draw \/ ClockLive

SpecLive == Init /\ [][NextLive]_vars /\ WF_vars(ClockLive)

\* The main loop requests a redraw on every iteration in Practice mode
\* (lines 806-809): redraws keep occurring
PollsKeepOccurring == []<>polled

\* The clock values at which a key event leaves the timeout inside the session
LiveTimes == {t \in StartMs..(LastTickLive - DECODE_TIMEOUT_MS) : t % TickMs = StartMs % TickMs}

-----------------------------------------------------------------------------
\* C12: in every reachable state the symbol buffer is empty exactly when the
\* last-activity timestamp is unset (0); a resolution clears the timestamp
\* together with the buffer.
C12_EmptyIffUnset ==
    (app.current_morse_position = 0) <=> (app.last_input_time = 0)

-----------------------------------------------------------------------------
\* The marquee late in a session: top_words already holds decoded
\* characters, the clear key has emptied everything else (lines 694-704
\* leave top_words and last_decoded_char alone), and further characters are
\* keyed and resolved.

\* top_words before the further characters: E's up to one short of the
\* capacity, or a full marquee of E's with one T
MarqueeWindows ==
    {[i \in 1..n |-> "E"] : n \in 0..(TOP_WORDS_MAX_LENGTH - 1)}
    \cup {[i \in 1..TOP_WORDS_MAX_LENGTH |-> IF i = k THEN "T" ELSE "E"] : k \in 1..TOP_WORDS_MAX_LENGTH}

\* The char array holding the string w
TopWordsArray(w) == [i \in 1..(TOP_WORDS_MAX_LENGTH + 1) |-> IF i <= Len(w) THEN w[i] ELSE NUL]

InitMarquee ==
    /\ \E w \in MarqueeWindows :
           app = [InitApp EXCEPT !.app_state = MorseStatePractice,
                                 !.top_words = TopWordsArray(w),
                                 !.last_decoded_char = IF w = <<>> THEN NUL ELSE w[Len(w)]]
    /\ sound_queue = <<>>
    /\ put_status = FuriStatusOk
    /\ now \in StartTimes
    /\ keyed = 0
    /\ last_symbol_ms = 0
    /\ last_key_ms = 0
    /\ codec = NoCodec
    /\ worker = InitWorker
    /\ polled = FALSE
    /\ ok_key = "up"
    /\ main = "loop"
    /\ hal = InitHal
    /\ hist = NoHist

KeyEventMarquee == OkEvent(InputTypes \ {InputTypeRepeat}, MaxKeyedMarquee)

ClockMarquee == ClockStep(DECODE_TIMEOUT_MS, MaxSecondsMarquee)

NextMarquee == KeyEventMarquee \/ Draw \/ ClockMarquee

SpecMarquee == InitMarquee /\ [][NextMarquee]_vars

\* C13: top_words is a FIFO window of capacity 16: a poll that resolves a
\* buffer matching a table entry appends the decoded character while there
\* is room and, once the window is full, drops exactly the oldest character
\* and keeps the others in order; the decoded character is the last one and
\* the length never exceeds 16.
C13_MarqueeWindow ==
    [][(PollStep /\ app.current_morse_position > 0 /\ Buffer(app) \in TableCodes
          /\ (app' # app \/ now - last_key_ms >= DECODE_TIMEOUT_MS))
          => LET ch == get_char_for_morse(Buffer(app))
                 tw == TopWords(app)
             IN  /\ TopWords(app') = IF Len(tw) < TOP_WORDS_MAX_LENGTH
                                     THEN Append(tw, ch)
                                     ELSE Append(Tail(tw), ch)
                 /\ Len(TopWords(app')) <= TOP_WORDS_MAX_LENGTH
                 /\ TopWords(app')[Len(TopWords(app'))] = ch]_vars

\* A character was appended to a full marquee: the T that only a full
\* marquee holds has moved to the front and the decoded character is last
C13_Witness ==
    /\ polled
    /\ keyed > 0
    /\ app.current_morse_position = 0
    /\ Len(TopWords(app)) = TOP_WORDS_MAX_LENGTH
    /\ TopWords(app)[1] = "T"
    /\ TopWords(app)[TOP_WORDS_MAX_LENGTH] = app.last_decoded_char
    /\ app.last_decoded_char \in {"E", "I"}

-----------------------------------------------------------------------------
\* The sound worker step by step (sound_worker_thread, lines 166-304), the
\* speaker it shares with the rest of the system, and the shutdown of the
\* main thread (lines 817-830)

\* The worker is about to test sound_running for the first time
InitWorkerThread ==
    [pc |-> "test", command |-> "SoundCommandNone", morse |-> <<>>, i |-> 0, started |-> FALSE]

InitWorkerSpec ==
    /\ app = InitApp
    /\ sound_queue = <<>>
    /\ put_status = FuriStatusOk
    /\ now \in StartTimes
    /\ keyed = 0
    /\ last_symbol_ms = 0
    /\ last_key_ms = 0
    /\ codec = NoCodec
    /\ worker = InitWorkerThread
    /\ polled = FALSE
    /\ ok_key = "up"
    /\ main = "loop"
    /\ hal = InitHal
    /\ hist = NoHist

\* The symbol the worker is playing
Symbol(w) == w.morse[w.i + 1]

\* A tone that is started whatever the volume
ToneWanted_Always(a) == TRUE

\* Lines 179, 198, 223, 239, 260, 276: a tone is started only if volume > 0
ToneWanted(a) == a.volume > 0

\* Lines 183 and 202: red for a dot, blue for a dash
LedOf(symbol) == IF symbol = "." THEN "red" ELSE "blue"

\* Lines 184 and 203: the length of the pulse
PulseMs(symbol) == IF symbol = "." THEN DOT_DURATION_MS ELSE DASH_DURATION_MS

\* Lines 191, 210, 235, 251, 272, 288: the pause after element i of a command
GapMs(command, i) ==
    IF command = SoundCommandCharacter /\ i = 0 THEN ELEMENT_SPACE_MS \div 2
    ELSE ELEMENT_SPACE_MS

\* Line 170: while(app->sound_running)
WorkerTest ==
    /\ worker.pc = "test"
    /\ worker' = [worker EXCEPT !.pc = IF app.sound_running THEN "get" ELSE "exit"]
    /\ polled' = FALSE
    /\ UNCHANGED <<app, sound_queue, put_status, now, keyed, last_symbol_ms, last_key_ms, codec, ok_key, main, hal, hist>>

\* A queue that hands out its newest command
furi_message_queue_get_Newest(q) == q[Len(q)]

\* furi_message_queue_get on a queue that is not empty: the oldest command
furi_message_queue_get(q) == Head(q)

\* Line 172: furi_message_queue_get returns the oldest command
WorkerTake ==
    /\ worker.pc = "get"
    /\ sound_queue # <<>>
    /\ worker' = [worker EXCEPT !.pc = "cmd", !.command = furi_message_queue_get(sound_queue)]
    /\ sound_queue' = Tail(sound_queue)
    /\ hist' = [hist EXCEPT !.taken = Append(@, furi_message_queue_get(sound_queue)),
                            !.qvol = Tail(@),
                            !.cmdvol = Head(hist.qvol),
                            !.qchar = Tail(@),
                            !.cmdchar = Head(hist.qchar),
                            !.after_stop = IF app.sound_running THEN @ ELSE @ + 1,
                            !.pulses = <<>>]
    /\ polled' = FALSE
    /\ UNCHANGED <<app, put_status, now, keyed, last_symbol_ms, last_key_ms, codec, ok_key, main, hal>>

\* Lines 172 and 300: furi_message_queue_get times out after 100 ms
WorkerTimeout ==
    /\ worker.pc = "get"
    /\ sound_queue = <<>>
    /\ worker' = [worker EXCEPT !.pc = "test"]
    /\ polled' = FALSE
    /\ UNCHANGED <<app, sound_queue, put_status, now, keyed, last_symbol_ms, last_key_ms, codec, ok_key, main, hal, hist>>

\* Lines 174-217: the switch; a Character command reads sound_character now
WorkerSwitch ==
    /\ worker.pc = "cmd"
    /\ LET morse == IF worker.command = SoundCommandDot THEN <<".">>
                    ELSE IF worker.command = SoundCommandDash THEN <<"-">>
                    ELSE get_morse_for_char(app.sound_character)
       IN  worker' = IF morse = NULL \/ morse = <<>>
                     THEN [worker EXCEPT !.pc = "test", !.morse = <<>>, !.i = 0]
                     ELSE [worker EXCEPT !.pc = "acquire", !.morse = morse, !.i = 0]
    /\ polled' = FALSE
    /\ UNCHANGED <<app, sound_queue, put_status, now, keyed, last_symbol_ms, last_key_ms, codec, ok_key, main, hal, hist>>

\* furi_hal_speaker_acquire(1000) returns true: the speaker was free
WorkerAcquire ==
    /\ worker.pc = "acquire"
    /\ hal.owner = "none"
    /\ hal' = [hal EXCEPT !.owner = "worker"]
    /\ worker' = [worker EXCEPT !.pc = "start"]
    /\ polled' = FALSE
    /\ UNCHANGED <<app, sound_queue, put_status, now, keyed, last_symbol_ms, last_key_ms, codec, ok_key, main, hist>>

\* A worker that returns when the speaker is taken
AfterAcquireFailure_GiveUp(w) == [w EXCEPT !.pc = "exit"]

\* A worker that tries again when the speaker is taken
AfterAcquireFailure_Retry(w) == [w EXCEPT !.pc = "acquire"]

\* Lines 177-191: with no else branch the worker goes on to the pause
AfterAcquireFailure(w) == [w EXCEPT !.pc = "gap"]

\* furi_hal_speaker_acquire(1000) returns false: the speaker stayed taken
\* for a second; the pulse is left out and the pause follows
WorkerAcquireFails ==
    /\ worker.pc = "acquire"
    /\ hal.owner = "other"
    /\ worker' = AfterAcquireFailure(worker)
    /\ hist' = [hist EXCEPT !.pulses = Append(@, [symbol |-> Symbol(worker), played |-> FALSE,
                                                  led |-> "off", tone |-> FALSE, ms |-> 0, gap |-> 0]),
                            !.skipped = @ + 1]
    /\ polled' = FALSE
    /\ UNCHANGED <<app, sound_queue, put_status, now, keyed, last_symbol_ms, last_key_ms, codec, ok_key, main, hal>>

\* Lines 179-183: the tone, if the volume is not 0, and the LED
WorkerStart ==
    /\ worker.pc = "start"
    /\ hal' = [hal EXCEPT !.tone = IF ToneWanted(app) THEN TRUE ELSE @,
                          !.led = LedOf(Symbol(worker))]
    /\ worker' = [worker EXCEPT !.pc = "stop", !.started = ToneWanted(app)]
    /\ polled' = FALSE
    /\ UNCHANGED <<app, sound_queue, put_status, now, keyed, last_symbol_ms, last_key_ms, codec, ok_key, main, hist>>

\* A release that leaves the speaker with its owner
furi_hal_speaker_release_Keep(h) == h

\* Lines 189, 208, 231, 247, 269, 285: the speaker is free again
furi_hal_speaker_release(h) == [h EXCEPT !.owner = "none"]

\* Lines 184-189: after the pulse the tone is stopped if the volume is not
\* 0 now, the LED is reset and the speaker released.  Whether the release
\* silences a tone that was not stopped is up to the firmware: both happen.
WorkerStop ==
    /\ worker.pc = "stop"
    /\ \E silenced \in BOOLEAN :
           hal' = furi_hal_speaker_release(
                      [hal EXCEPT !.tone = IF ToneWanted(app) \/ silenced THEN FALSE ELSE @,
                                  !.led = "off"])
    /\ hist' = [hist EXCEPT !.pulses = Append(@, [symbol |-> Symbol(worker), played |-> TRUE,
                                                  led |-> hal.led, tone |-> worker.started,
                                                  ms |-> PulseMs(Symbol(worker)), gap |-> 0])]
    /\ worker' = [worker EXCEPT !.pc = "gap"]
    /\ polled' = FALSE
    /\ UNCHANGED <<app, sound_queue, put_status, now, keyed, last_symbol_ms, last_key_ms, codec, ok_key, main>>

\* Lines 191, 235, 256, 272, 300: the pause, then the next element of the
\* command or the end of the command
WorkerGap ==
    /\ worker.pc = "gap"
    /\ hist' = [hist EXCEPT !.pulses[Len(hist.pulses)].gap = GapMs(worker.command, worker.i)]
    /\ worker' = IF worker.i + 1 < Len(worker.morse)
                 THEN [worker EXCEPT !.pc = "acquire", !.i = @ + 1]
                 ELSE [worker EXCEPT !.pc = "test"]
    /\ polled' = FALSE
    /\ UNCHANGED <<app, sound_queue, put_status, now, keyed, last_symbol_ms, last_key_ms, codec, ok_key, main, hal>>

WorkerStep ==
    \/ WorkerTest
    \/ WorkerTake
    \/ WorkerTimeout
    \/ WorkerSwitch
    \/ WorkerAcquire
    \/ WorkerAcquireFails
    \/ WorkerStart
    \/ WorkerStop
    \/ WorkerGap

\* Another user of the speaker takes it and gives it back
OtherAcquires ==
    /\ hal.owner = "none"
    /\ main = "loop"
    /\ hal' = [hal EXCEPT !.owner = "other"]
    /\ polled' = FALSE
    /\ UNCHANGED <<app, sound_queue, put_status, now, keyed, last_symbol_ms, last_key_ms, codec, worker, ok_key, main, hist>>

OtherReleases ==
    /\ hal.owner = "other"
    /\ hal' = [hal EXCEPT !.owner = "none"]
    /\ polled' = FALSE
    /\ UNCHANGED <<app, sound_queue, put_status, now, keyed, last_symbol_ms, last_key_ms, codec, worker, ok_key, main, hist>>

\* Lines 803 and 818: the main loop ends once is_running is false, and the
\* main thread tells the worker to stop
MainLoopExit ==
    /\ main = "loop"
    /\ ~app.is_running
    /\ app' = [app EXCEPT !.sound_running = FALSE]
    /\ main' = "join"
    /\ polled' = FALSE
    /\ UNCHANGED <<sound_queue, put_status, now, keyed, last_symbol_ms, last_key_ms, codec, worker, ok_key, hal, hist>>

\* A join that does not wait for the thread
furi_thread_join_NoWait(w) == TRUE

\* furi_thread_join returns once the thread function has returned
furi_thread_join(w) == w.pc = "exit"

\* Lines 819-820
MainJoin ==
    /\ main = "join"
    /\ furi_thread_join(worker)
    /\ main' = "free"
    /\ polled' = FALSE
    /\ UNCHANGED <<app, sound_queue, put_status, now, keyed, last_symbol_ms, last_key_ms, codec, worker, ok_key, hal, hist>>

\* Lines 823-830: the view port, the queues and the structure are released
MainFree ==
    /\ main = "free"
    /\ main' = "done"
    /\ polled' = FALSE
    /\ UNCHANGED <<app, sound_queue, put_status, now, keyed, last_symbol_ms, last_key_ms, codec, worker, ok_key, hal, hist>>

MainStep == MainLoopExit \/ MainJoin \/ MainFree

\* The keys explored: those of SoundEvents, the volume keys in Practice
\* mode and Back in the menu, which ends the application
WorkerEvents ==
    SoundEvents
    \cup (IF app.app_state = MorseStatePractice
          THEN {<<InputKeyUp, InputTypeShort>>, <<InputKeyDown, InputTypeShort>>}
          ELSE {})
    \cup (IF app.app_state = MorseStateMenu /\ app.is_running
          THEN {<<InputKeyBack, InputTypeShort>>}
          ELSE {})

\* The log after a put that the queue accepted: the command, the volume at
\* that moment and, for a Character command, the character passed to
\* play_character
LogPut ==
    LET cmd == sound_queue'[Len(sound_queue')]
    IN  [hist EXCEPT !.accepted = Append(@, cmd),
                     !.qvol = Append(@, app.volume),
                     !.qchar = Append(@, IF cmd = SoundCommandCharacter
                                         THEN app'.sound_character ELSE NUL)]

\* The volumes explored with the worker running: muted and the initial volume
VolumesExplored == {0, INITIAL_VOLUME}

\* One key event; a command the queue accepted is logged with the volume
\* of that moment
KeyEventWorker ==
    \E e \in WorkerEvents :
        /\ Input(e[1], e[2])
        /\ app'.volume \in VolumesExplored
        /\ sound_queue' # sound_queue => Len(hist.accepted) < MaxCommands
        /\ hist' = IF sound_queue' # sound_queue THEN LogPut ELSE hist
        /\ UNCHANGED ok_key

NextWorker == KeyEventWorker \/ WorkerStep \/ OtherAcquires \/ OtherReleases \/ MainStep

\* The scheduler runs both threads: neither the worker nor the main thread
\* waits for ever while it can take a step
SpecWorker ==
    InitWorkerSpec /\ [][NextWorker]_vars /\ WF_vars(WorkerStep) /\ WF_vars(MainStep)

-----------------------------------------------------------------------------
\* C14: for every pulse for which the worker acquired the speaker, the LED
\* is switched on whatever the volume, and the tone is started if and only
\* if the volume read when the pulse starts is greater than 0, whatever the
\* volume was when the command was queued.
C14_ToneFollowsVolumeAtPlay ==
    [][WorkerStart
          => /\ hal'.led = LedOf(Symbol(worker))
             /\ hal'.led # "off"
             /\ worker'.started <=> app.volume > 0
             /\ worker'.started => hal'.tone]_vars

\* A command queued while muted is sounding: the volume was raised before
\* the worker played it
C14_Witness ==
    /\ worker.pc = "stop"
    /\ hist.cmdvol = 0
    /\ worker.started
    /\ hal.tone
    /\ hal.led # "off"

-----------------------------------------------------------------------------
\* C15: when the worker fails to acquire the speaker for a pulse, the pulse
\* is left out (no tone is started and the LED stays off), the command is
\* not put back into the queue and the acquire is not tried again: the
\* worker goes on with the pause, then with the next element of the command
\* or with the next command.
C15_FailedAcquireSkipsPulse ==
    [][/\ WorkerAcquireFails
          => /\ hal' = hal
             /\ hal.led = "off"
             /\ sound_queue' = sound_queue
             /\ hist'.accepted = hist.accepted
             /\ worker'.pc = "gap"
             /\ worker'.i = worker.i
       /\ (WorkerGap /\ ~hist.pulses[Len(hist.pulses)].played)
          => /\ sound_queue' = sound_queue
             /\ hal' = hal
             /\ IF worker.i + 1 < Len(worker.morse)
                THEN worker'.pc = "acquire" /\ worker'.i = worker.i + 1
                ELSE worker'.pc = "test"]_vars

\* A pulse of the first command was left out and the worker is playing the
\* second command
C15_Witness ==
    /\ hist.skipped > 0
    /\ Len(hist.taken) = 2
    /\ hist.pulses = <<>>
    /\ worker.pc = "stop"
    /\ hal.owner = "worker"

-----------------------------------------------------------------------------
\* C16, the worker finishing only what it is playing: once sound_running is
\* false the worker eventually leaves its loop, it takes no command from
\* the queue after that moment, and the main thread releases the queue and
\* the other shared resources only after the worker has returned.
C16_StopsAfterCurrentCommand ==
    /\ ~app.sound_running ~> worker.pc = "exit"
    /\ [](hist.after_stop = 0)
    /\ [](main \in {"free", "done"} => worker.pc = "exit")

\* C16, with the wait that was under way: once sound_running is false the
\* worker eventually leaves its loop, having taken at most one more command
\* from the queue (the loop tests sound_running only before it waits on the
\* queue), and the main thread releases the queue and the other shared
\* resources only after the worker has returned.
C16_StopsAfterAtMostOneCommand ==
    /\ ~app.sound_running ~> worker.pc = "exit"
    /\ [](hist.after_stop <= 1)
    /\ [](main \in {"free", "done"} => worker.pc = "exit")

\* The worker took a command after the stop signal, played it and returned;
\* the main thread has released everything
C16_Witness ==
    /\ main = "done"
    /\ worker.pc = "exit"
    /\ ~app.sound_running
    /\ hist.after_stop = 1
    /\ hist.pulses # <<>>

-----------------------------------------------------------------------------
\* C17: the commands the queue accepted are taken by the one worker in the
\* order in which they were put, and pulses never overlap: when the worker
\* asks for the speaker the pulse before has released it and switched the
\* LED off, and the LED is on only during the one pulse being played.
C17_SerializedInOrder ==
    /\ hist.accepted = hist.taken \o sound_queue
    /\ worker.pc = "acquire" => hal.owner # "worker" /\ hal.led = "off"
    /\ hal.led # "off" => hal.owner = "worker" /\ worker.pc = "stop"
    /\ hal.owner = "worker" => worker.pc \in {"start", "stop"}

\* Two different commands were taken in turn and the pulse of the second
\* is being played
C17_Witness ==
    /\ Len(hist.taken) = 2
    /\ hist.taken[1] # hist.taken[2]
    /\ hist.accepted = hist.taken
    /\ worker.pc = "stop"
    /\ worker.command = hist.taken[2]

-----------------------------------------------------------------------------
\* The volume keys (lines 705-720) among the other keys of Practice mode

VolumeKeys == {InputKeyUp, InputKeyDown}

\* The keys explored: into Practice mode, then dot, dash, volume up and
\* volume down (short, and long, which the handler ignores)
VolumeEvents ==
    IF app.app_state = MorseStatePractice
    THEN {<<InputKeyOk, InputTypeShort>>, <<InputKeyOk, InputTypeLong>>}
         \cup {<<k, t>> : k \in VolumeKeys, t \in {InputTypeShort, InputTypeLong}}
    ELSE {<<InputKeyOk, InputTypeShort>>}

\* A volume key was handled in Practice mode
VolumeStep(key) == app.app_state = MorseStatePractice /\ Input(key, InputTypeShort)

\* One key event; the log notes a volume key handled at the limit
KeyEventVolume ==
    \E e \in VolumeEvents :
        /\ IsSymbolEvent(e[1], e[2]) => keyed < MaxKeyedVolume
        /\ Input(e[1], e[2])
        /\ hist' = [hist EXCEPT !.clamped = @ \/ (/\ e[1] \in VolumeKeys
                                                   /\ e[2] = InputTypeShort
                                                   /\ app.app_state = MorseStatePractice
                                                   /\ app'.volume = app.volume)]
        /\ UNCHANGED ok_key

NextVolume == KeyEventVolume

SpecVolume == Init /\ [][NextVolume]_vars

-----------------------------------------------------------------------------
\* C19: the worker holds the speaker only while it plays a pulse: it does
\* not hold it at the loop test, while it waits on the queue, between the
\* elements or the commands, or once it has returned, so every acquire that
\* succeeded was followed by a release; and the LED is off in those places.
C19_SpeakerHeldOnlyDuringPulse ==
    /\ worker.pc \in {"test", "get", "cmd", "acquire", "gap", "exit"} => hal.owner # "worker"
    /\ worker.pc \in {"test", "get", "cmd", "acquire", "gap", "exit"} => hal.led = "off"
    /\ worker.pc \in {"start", "stop"} => hal.owner = "worker"

\* The worker has returned after playing a pulse and the speaker is free
C19_Witness ==
    /\ worker.pc = "exit"
    /\ hist.pulses # <<>>
    /\ hist.pulses[Len(hist.pulses)].played
    /\ hal.owner = "none"

-----------------------------------------------------------------------------
\* Learn mode with the worker: a character is shown, OK plays it, RIGHT
\* shows the next one

LearnChars == SeqRange(UpperCase) \cup SeqRange(Digits)

\* Learn mode was opened from the menu and some character is shown
InitCharacter ==
    /\ \E c \in LearnChars :
           app = [InitApp EXCEPT !.app_state = MorseStateLearn,
                                 !.menu_selection = 0,
                                 !.current_char = c,
                                 !.learning_letters_mode = c \in SeqRange(UpperCase)]
    /\ sound_queue = <<>>
    /\ put_status = FuriStatusOk
    /\ now \in StartTimes
    /\ keyed = 0
    /\ last_symbol_ms = 0
    /\ last_key_ms = 0
    /\ codec = NoCodec
    /\ worker = InitWorkerThread
    /\ polled = FALSE
    /\ ok_key = "up"
    /\ main = "loop"
    /\ hal = InitHal
    /\ hist = NoHist

\* OK plays the character shown
PlayEvent ==
    /\ Len(hist.accepted) < MaxCharacterCommands
    /\ Input(InputKeyOk, InputTypeShort)
    /\ hist' = IF sound_queue' # sound_queue THEN LogPut ELSE hist
    /\ UNCHANGED ok_key

\* RIGHT shows the next character, once after each play
NavigateEvent ==
    /\ app.current_char = app.sound_character
    /\ Input(InputKeyRight, InputTypeShort)
    /\ UNCHANGED <<ok_key, hist>>

NextCharacter == PlayEvent \/ NavigateEvent \/ WorkerStep \/ OtherAcquires \/ OtherReleases

SpecCharacter == InitCharacter /\ [][NextCharacter]_vars

\* The pulse and the pause the worker owes to element k of the code m
PulseOwed(m, k) ==
    [symbol |-> m[k], played |-> TRUE,
     led |-> IF m[k] = "." THEN "red" ELSE "blue",
     tone |-> TRUE,
     ms |-> IF m[k] = "." THEN 150 ELSE 300,
     gap |-> IF k = 1 THEN 50 ELSE 100]

\* C20: when the worker has finished a Character command that was queued
\* for the character c, and the speaker was free for each of its pulses, it
\* has played exactly one pulse per symbol of get_morse_for_char(c), in
\* order: 150 ms and red for a dot, 300 ms and blue for a dash, a pause of
\* 50 ms after the first pulse and of 100 ms after every later one.
C20_CharacterPulses ==
    [][(/\ WorkerGap
        /\ worker.command = SoundCommandCharacter
        /\ worker'.pc = "test"
        /\ \A k \in 1..Len(hist'.pulses) : hist'.pulses[k].played)
          => LET m == get_morse_for_char(hist.cmdchar)
             IN  hist'.pulses = [k \in 1..Len(m) |-> PulseOwed(m, k)]]_vars

-----------------------------------------------------------------------------
\* C21: keying a symbol (a Short or Long event of OK/LEFT in Practice mode)
\* resolves nothing, whatever time has passed: the last-decoded slot and
\* the rolling display text are left as they were, the symbol is appended
\* to the symbol buffer and the time stamp is set to the current time.
C21_SubmitOnlyAppends ==
    [][\A type \in SymbolTypes :
          SymbolStep(type) =>
              /\ app'.last_decoded_char = app.last_decoded_char
              /\ TopWords(app') = TopWords(app)
              /\ Buffer(app') = Append(Buffer(app), SymbolOf(type))
              /\ app'.last_input_time = furi_hal_rtc_get_timestamp(now)]_vars

-----------------------------------------------------------------------------
\* The number of spaces in a text
SpaceCount(t) == Cardinality({i \in 1..Len(t) : t[i] = " "})

\* The text does not start with a space and has no two spaces in a row
SingleSpaced(t) ==
    /\ Len(t) > 0 => t[1] # " "
    /\ \A i \in 1..(Len(t) - 1) : ~(t[i] = " " /\ t[i + 1] = " ")

\* C22: the pending space is used up only by new input: a redraw never puts
\* a space into the decoded text, a space is added only by a key event that
\* finds auto_add_space set and that event clears the flag, and the decoded
\* text never starts with a space nor holds two spaces in a row, however
\* long no key is pressed.
C22_SeparatorOnInput ==
    /\ [][/\ PollStep => SpaceCount(DecodedText(app')) = SpaceCount(DecodedText(app))
          /\ SpaceCount(DecodedText(app')) > SpaceCount(DecodedText(app))
                 => /\ ~polled'
                    /\ last_key_ms' = now
                    /\ app.auto_add_space
                    /\ ~app'.auto_add_space
                    /\ SpaceCount(DecodedText(app')) = SpaceCount(DecodedText(app)) + 1
          /\ (\E type \in InputTypes : SymbolStep(type)) => ~app'.auto_add_space]_vars
    /\ [](SingleSpaced(DecodedText(app)))

\* Two characters were decoded with a pause between them: the space was
\* put between them by the key event that began the second one
C22_Witness ==
    /\ Len(DecodedText(app)) = 3
    /\ DecodedText(app)[2] = " "
    /\ DecodedText(app)[3] # " "
    /\ polled

-----------------------------------------------------------------------------
\* C23: the time stamp changes only when a symbol is appended to the symbol
\* buffer, or when it is cleared (set to 0): a key event that appends no
\* symbol, such as Press, Release or Repeat of OK/LEFT, leaves it as it was.
C23_TimestampOnlyOnSymbol ==
    [][app'.last_input_time # app.last_input_time
          => \/ \E type \in SymbolTypes :
                    /\ SymbolStep(type)
                    /\ Buffer(app') = Append(Buffer(app), SymbolOf(type))
             \/ app'.last_input_time = 0]_vars

-----------------------------------------------------------------------------
\* C24: when the worker plays a Character command it has taken from the
\* queue, the code it plays is the Morse code of the character that was
\* passed to the play_character call that queued that command, whatever
\* play_character calls came after it.
C24_CharacterOfCommand ==
    [][(WorkerSwitch /\ worker.command = SoundCommandCharacter)
          => worker'.morse = get_morse_for_char(hist.cmdchar)]_vars

-----------------------------------------------------------------------------
\* C25: within one pulse the worker stops the tone if and only if it
\* started it, whatever volume keys are handled during the pulse.  The
\* stop is issued when the volume read after the pulse (lines 185, 204,
\* 228, 244, 265, 281) is greater than 0; the tone was started when the
\* volume read before the pulse was.
C25_StopIffStarted ==
    [][WorkerStop => (ToneWanted(app) <=> worker.started)]_vars

-----------------------------------------------------------------------------
\* The decoder with changes of mode: dots and dashes, clear, Back to the
\* menu and into Practice mode again, redraws, pauses of a whole timeout

BoundsEvents ==
    IF app.app_state = MorseStatePractice
    THEN {<<InputKeyOk, InputTypeShort>>, <<InputKeyOk, InputTypeLong>>,
          <<InputKeyRight, InputTypeShort>>, <<InputKeyBack, InputTypeShort>>}
    ELSE {<<InputKeyOk, InputTypeShort>>}

KeyEventBounds ==
    \E e \in BoundsEvents :
        /\ IsSymbolEvent(e[1], e[2]) => keyed < MaxKeyedBounds
        /\ Input(e[1], e[2])
        /\ UNCHANGED <<ok_key, hist>>

ClockBounds == ClockStep(DECODE_TIMEOUT_MS, MaxSecondsBounds)

NextBounds == KeyEventBounds \/ Draw \/ ClockBounds

SpecBounds == Init /\ [][NextBounds]_vars

\* An element of an array that a handler writes
Write(array, index) == [array |-> array, index |-> index]

\* Lines 639-688: the elements that an OK or LEFT event in Practice mode
\* writes: the space, the symbol in user_input, the symbol in current_morse,
\* each with its terminating NUL
PracticeKeyWrites(a, type) ==
    LET len == strlen(a.decoded_text)
        a3 == ClearFullInput(a)
    IN  (IF a.auto_add_space /\ len < MAX_MORSE_LENGTH - 1
         THEN {Write("decoded_text", len), Write("decoded_text", len + 1)}
         ELSE {})
        \cup
        (IF type \in {InputTypeShort, InputTypeLong}
            /\ strlen(a3.user_input) < MAX_MORSE_LENGTH - 1
         THEN {Write("user_input", a3.input_position),
               Write("user_input", a3.input_position + 1)}
              \cup (IF a3.current_morse_position < MAX_MORSE_LENGTH - 1
                    THEN {Write("current_morse", a3.current_morse_position),
                          Write("current_morse", a3.current_morse_position + 1)}
                    ELSE {})
         ELSE {})

\* Lines 336-369: the elements that try_decode_morse writes
DecodeWrites(a, current_time) ==
    IF PauseDetected(a, current_time)
    THEN LET len == strlen(a.decoded_text)
             ch == get_char_for_morse(SubSeq(a.current_morse, 1, a.current_morse_position))
         IN  {Write("current_morse", a.current_morse_position), Write("current_morse", 0)}
             \cup (IF ch # "?" /\ len < MAX_MORSE_LENGTH - 1
                   THEN {Write("decoded_text", len), Write("decoded_text", len + 1)}
                   ELSE {})
             \cup (IF ch # "?" /\ a.input_position < MAX_MORSE_LENGTH - 1
                   THEN {Write("user_input", a.input_position),
                         Write("user_input", a.input_position + 1)}
                   ELSE {})
    ELSE {}

\* The write is inside its array of MAX_MORSE_LENGTH bytes
InsideArray(w) == w.index \in 0..(MAX_MORSE_LENGTH - 1)

\* C26: after any key events, redraws, clears and changes of mode,
\* current_morse_position and input_position are within 0..5, every write
\* of the key handler and of the decoder to current_morse, user_input and
\* decoded_text, the terminating NUL included, is inside the 6 bytes of the
\* array, and every code of the table has 1 to 5 symbols.
C26_IndicesInBounds ==
    /\ [](/\ app.current_morse_position \in 0..(MAX_MORSE_LENGTH - 1)
          /\ app.input_position \in 0..(MAX_MORSE_LENGTH - 1)
          /\ \A i \in 1..Len(MORSE_TABLE) :
                 Len(MORSE_TABLE[i].code) \in 1..(MAX_MORSE_LENGTH - 1))
    /\ [][/\ \A type \in InputTypes :
                 (app.app_state = MorseStatePractice /\ Input(InputKeyOk, type))
                     => \A w \in PracticeKeyWrites(app, type) : InsideArray(w)
          /\ PollStep
                 => \A w \in DecodeWrites(app, furi_hal_rtc_get_timestamp(now)) :
                        InsideArray(w)]_vars

\* Practice mode was left and opened again with four characters in
\* user_input: the array was cleared, input_position was not, and the next
\* symbol was written at index 4 with its NUL at index 5
C26_Witness ==
    /\ app.app_state = MorseStatePractice
    /\ app.input_position = MAX_MORSE_LENGTH - 1
    /\ strlen(app.user_input) = 0
    /\ app.user_input[MAX_MORSE_LENGTH - 1] \in {".", "-"}

-----------------------------------------------------------------------------
\* Learn mode: from the title screen into the menu, to the Learn entry and
\* into Learn mode; there every key, short; Back returns to the menu

LearnEvents ==
    IF app.app_state = MorseStateLearn
    THEN {<<k, InputTypeShort>> : k \in InputKeys} \cup {<<InputKeyRight, InputTypeLong>>}
    ELSE IF app.app_state = MorseStateMenu
    THEN (IF app.menu_selection = 0 THEN {<<InputKeyOk, InputTypeShort>>} ELSE {})
         \cup {<<InputKeyLeft, InputTypeShort>>}
    ELSE IF app.app_state = MorseStateTitleScreen
    THEN {<<InputKeyOk, InputTypeShort>>}
    ELSE {}

\* LEFT or RIGHT is handled in Learn mode at the end of the alphabet
AtAlphabetEnd(key) ==
    /\ app.app_state = MorseStateLearn
    /\ \/ key = InputKeyRight /\ app.current_char \in {"Z", "9"}
       \/ key = InputKeyLeft /\ app.current_char \in {"A", "0"}

\* One key event; the log notes a step over the end of the alphabet
KeyEventLearn ==
    \E e \in LearnEvents :
        /\ Input(e[1], e[2])
        /\ hist' = [hist EXCEPT !.wrapped = @ \/ (e[2] = InputTypeShort /\ AtAlphabetEnd(e[1]))]
        /\ UNCHANGED ok_key

NextLearn == KeyEventLearn \/ WorkerGet \/ WorkerDone

SpecLearn == Init /\ [][NextLearn]_vars

\* The alphabet of the current mode: A-Z in letters mode, 0-9 in numbers mode
Alphabet(a) == IF a.learning_letters_mode THEN UpperCase ELSE Digits

\* The place of the character c in the alphabet s (0 if it is not there)
IndexIn(s, c) ==
    IF \E i \in 1..Len(s) : s[i] = c THEN CHOOSE i \in 1..Len(s) : s[i] = c ELSE 0

\* A key, short, is handled in Learn mode
LearnStep(key) == app.app_state = MorseStateLearn /\ Input(key, InputTypeShort)

\* C28: in Learn mode the character shown always belongs to the alphabet
\* of the current mode; RIGHT and LEFT go to the next and the previous
\* character of that alphabet and wrap around at its ends (Z to A, A to Z,
\* 9 to 0, 0 to 9); so every Character command queued from Learn mode
\* names a character that has a Morse code.
C28_LearnAlphabet ==
    /\ [](app.app_state = MorseStateLearn
              => app.current_char \in SeqRange(Alphabet(app)))
    /\ [][/\ LearnStep(InputKeyRight)
             => LET s == Alphabet(app)
                IN  /\ Alphabet(app') = s
                    /\ app'.current_char = s[(IndexIn(s, app.current_char) % Len(s)) + 1]
          /\ LearnStep(InputKeyLeft)
             => LET s == Alphabet(app)
                IN  /\ Alphabet(app') = s
                    /\ app'.current_char =
                           s[((IndexIn(s, app.current_char) + Len(s) - 2) % Len(s)) + 1]
          /\ (LearnStep(InputKeyOk) /\ sound_queue' # sound_queue)
             => /\ sound_queue' = Append(sound_queue, SoundCommandCharacter)
                /\ app'.sound_character = app.current_char
                /\ get_morse_for_char(app'.sound_character) # NULL]_vars

\* In numbers mode '0' was played and LEFT then wrapped around to '9'
C28_Witness ==
    /\ app.app_state = MorseStateLearn
    /\ ~app.learning_letters_mode
    /\ hist.wrapped
    /\ app.sound_character = "0"
    /\ app.current_char = "9"
    /\ sound_queue # <<>>

-----------------------------------------------------------------------------
\* The worker with the keys that queue a dot or a dash: into Practice mode,
\* dots and dashes, Back to the menu and Back again, which ends the
\* application; another user of the speaker; the shutdown

DrainEvents ==
    IF app.app_state = MorseStatePractice
    THEN {<<InputKeyOk, InputTypeShort>>, <<InputKeyOk, InputTypeLong>>,
          <<InputKeyBack, InputTypeShort>>}
    ELSE IF app.app_state = MorseStateMenu /\ app.is_running
    THEN {<<InputKeyOk, InputTypeShort>>, <<InputKeyBack, InputTypeShort>>}
    ELSE IF app.app_state = MorseStateTitleScreen
    THEN {<<InputKeyOk, InputTypeShort>>}
    ELSE {}

KeyEventDrain ==
    \E e \in DrainEvents :
        /\ Input(e[1], e[2])
        /\ sound_queue' # sound_queue => Len(hist.accepted) < MaxCommands
        /\ hist' = IF sound_queue' # sound_queue THEN LogPut ELSE hist
        /\ UNCHANGED ok_key

NextDrain == KeyEventDrain \/ WorkerStep \/ OtherAcquires \/ OtherReleases \/ MainStep

\* The scheduler runs the worker and the main thread, as in SpecWorker
SpecDrain ==
    InitWorkerSpec /\ [][NextDrain]_vars /\ WF_vars(WorkerStep) /\ WF_vars(MainStep)

\* C27: while no stop signal has been given, every command the queue
\* accepted is eventually taken by the worker and finished, played or
\* skipped, whether or not the speaker can be acquired: for the n-th
\* accepted command the worker comes back to its loop test having taken
\* n commands, unless sound_running was set to false before.
C27_AcceptedIsProcessed ==
    \A n \in 1..MaxCommands :
        (Len(hist.accepted) >= n)
            ~> (\/ ~app.sound_running
                \/ Len(hist.taken) >= n /\ worker.pc = "test")

\* Both commands were taken and finished with no stop signal given,
\* although the speaker could not be acquired for a pulse
C27_Witness ==
    /\ app.sound_running
    /\ app.is_running
    /\ Len(hist.accepted) = MaxCommands
    /\ Len(hist.taken) = MaxCommands
    /\ sound_queue = <<>>
    /\ worker.pc = "test"
    /\ hist.skipped > 0

====
